---------------------------- MODULE Spec2Model ----------------------------
(***************************************************************************)
(* Model of src/rpgm_modules/leaflet/main.js: the LeafletMapManager        *)
(* singleton (message dispatcher, step cache, icon table) and the          *)
(* LeafletMap class (debounced view reporting, queued GeoJSON drawing,     *)
(* marker replacement).                                                    *)
(*                                                                         *)
(* LeafletMap objects live in a heap indexed 1..Len(_id); 0 is the         *)
(* `undefined` reference.  The Leaflet widget, the browser timer table and *)
(* the RPGM transport are modelled at the interface the source uses.       *)
(*                                                                         *)
(* Scheduling: JavaScript runs one task to completion at a time.  A timer  *)
(* never runs before its delay has elapsed, and the model lets an expired  *)
(* timer run before time advances further and before a later event is     *)
(* handled (EventLoopIdle).  The widget changes its viewport only together *)
(* with a zoomend or moveend signal.                                       *)
(***************************************************************************)
EXTENDS Integers, Sequences, FiniteSets, TLC

(***************************************************************************)
(* Bounds of the model.                                                    *)
(***************************************************************************)
Granularity == 1
MaxBurst == 2
MaxQueue == 2
MaxMarkers == 2
MaxRegistered == 2

(***************************************************************************)
(* Program constants.                                                      *)
(***************************************************************************)
DebounceDelay == 200
NullTimer == 0
Undefined == 0

NoMapId == "undefined"

MapIdSeq == <<"m1", "m2">>

MapIds == { MapIdSeq[i] : i \in 1..Len(MapIdSeq) }

MaxMaps == Len(MapIdSeq)

BoxA == [north |-> 2, east |-> 4, south |-> 1, west |-> 3]

BoxB == [north |-> 6, east |-> 8, south |-> 5, west |-> 7]

Viewports ==
    { [box |-> BoxA, zoom |-> 10],
      [box |-> BoxB, zoom |-> 10],
      [box |-> BoxB, zoom |-> 11] }

(***************************************************************************)
(* The viewport of a widget whose options gave no center and zoom: the     *)
(* widget is not loaded.  Nothing in the program sets a widget's view      *)
(* after construction, so such a widget stays unloaded.                    *)
(***************************************************************************)
NoView == [box |-> [north |-> 0, east |-> 0, south |-> 0, west |-> 0],
           zoom |-> -1]

Min(a, b) == IF a < b THEN a ELSE b

(***************************************************************************)
(* JavaScript values of the `points` argument: numbers, arrays, null and   *)
(* undefined, each tagged with its kind.                                   *)
(***************************************************************************)
Num(n) == [k |-> "num", v |-> n]

Arr(s) == [k |-> "arr", v |-> s]

JsNull == [k |-> "null", v |-> 0]

JsUndefined == [k |-> "undefined", v |-> 0]

Pair(a, b) == Arr(<<Num(a), Num(b)>>)

RingA == Arr(<<Pair(0, 0), Pair(0, 1), Pair(1, 1)>>)

RingB == Arr(<<Pair(2, 2), Pair(2, 3), Pair(3, 3)>>)

(***************************************************************************)
(* The addGeoJSON calls of the model: a flat ring, a sequence of two       *)
(* rings, an empty array, and null (which the renderer rejects).           *)
(***************************************************************************)
AddCalls ==
    { [id |-> 7, points |-> RingA, tooltip |-> "t", color |-> "red"],
      [id |-> 12, points |-> Arr(<<RingA, RingB>>), tooltip |-> "u",
       color |-> "blue"],
      [id |-> 7, points |-> Arr(<<>>), tooltip |-> "u", color |-> "red"],
      [id |-> 30, points |-> JsNull, tooltip |-> "t", color |-> "blue"] }

(***************************************************************************)
(* The marker entries of updateMarkers calls.                              *)
(***************************************************************************)
MarkerEntries ==
    { [lat |-> 1, lng |-> 2, label |-> "a", icon |-> "i1"],
      [lat |-> 3, lng |-> 4, label |-> "b", icon |-> "i2"],
      [lat |-> 3, lng |-> 4, label |-> "c", icon |-> "i1"] }

SeqsUpTo(S, n) == UNION { [1..m -> S] : m \in 0..n }

VARIABLES
    _currentStepCache,  \* manager: last step id seen
    _maps,              \* manager: array of registered LeafletMap references
    _icons,             \* manager: icon table
    _id,                \* LeafletMap: map id, per object
    _queueGeoJSON,      \* LeafletMap: queued zone features, per object
    _lastGeoJSON,       \* LeafletMap: last layer built by drawGeoJSON, per object
    _markers,           \* LeafletMap: markers created by updateMarkers, per object
    _debouncer,         \* LeafletMap: handle of the last timer set, per object
    view,               \* widget: current viewport, per object
    geoLayers,          \* widget: handles of the GeoJSON layers attached, per object
    markerLayers,       \* widget: the markers attached, per object
    _legendDiv,         \* widget: innerHTML of the legend control, per object
    highlighted,        \* widget: features of the attached layer drawn emphasised, per object
    _tooltipDiv,        \* widget: display and innerHTML of the info control, per object
    timers,             \* browser: pending timers
    sent,               \* transport: messages handed to RPGM.sendMessage by the last task
    quiet,              \* history: time since the object's last view-change signal
    burstLen,           \* history: signals in the object's current burst
    burstSent,          \* history: onDidChangeView sent since the burst began
    unreported,         \* history: a signal arrived since the last onDidChangeView
    sigView,            \* history: viewport at the object's last view-change signal
    firstView,          \* history: viewport at the first signal of the current burst
    earlier,            \* history: the current burst began after an onDidChangeView
    added,              \* history: addGeoJSON calls since the object's last drawGeoJSON
    everFailed,         \* history: a drawGeoJSON of the object threw
    drawn,              \* history: addGeoJSON calls behind the object's last layer
    lastMarkers,        \* history: argument of the object's last updateMarkers
    lastEvent,          \* history: the event the manager handled in the last task
    lastStep,           \* history: step id of the most recent didEnterStep
    loadSent            \* history: number of onDidLoad sent for the object

mgrVars == <<_currentStepCache, _maps, _icons>>
objVars == <<_id, _queueGeoJSON, _lastGeoJSON, _markers, _debouncer>>
widgetVars == <<view, geoLayers, markerLayers, _legendDiv, highlighted,
               _tooltipDiv>>
featVars == <<highlighted, _tooltipDiv>>
loopVars == <<timers, sent>>
viewHist == <<quiet, burstLen, burstSent, unreported, sigView, firstView, earlier>>
geoHist == <<added, everFailed, drawn>>
markHist == <<lastMarkers>>
msgHist == <<lastEvent, lastStep>>
vars == <<mgrVars, objVars, widgetVars, loopVars, viewHist, geoHist, markHist,
          msgHist, loadSent>>

Objects == 1..Len(_id)

NoLayer == [h |-> 0, features |-> <<>>]

NoEvent == [message |-> "", mapId |-> NoMapId]

(***************************************************************************)
(* The info control after this._tooltip.update() without properties.       *)
(***************************************************************************)
NoInfo == [display |-> "none", innerHTML |-> ""]

NoStep == [set |-> FALSE, stepId |-> 0]

(***************************************************************************)
(* RPGM.sendMessage('r', message, data)                                    *)
(***************************************************************************)
sendMessage(box, message, data) == Append(box, [message |-> message, data |-> data])

(***************************************************************************)
(* LeafletMapManager.constructor                                           *)
(***************************************************************************)
Init ==
    /\ _currentStepCache = NoStep
    /\ _maps = <<>>
    /\ _icons = <<>>
    /\ _id = <<>>
    /\ _queueGeoJSON = <<>>
    /\ _lastGeoJSON = <<>>
    /\ _markers = <<>>
    /\ _debouncer = <<>>
    /\ view = <<>>
    /\ geoLayers = <<>>
    /\ markerLayers = <<>>
    /\ _legendDiv = <<>>
    /\ highlighted = <<>>
    /\ _tooltipDiv = <<>>
    /\ timers = {}
    /\ sent = <<>>
    /\ quiet = <<>>
    /\ burstLen = <<>>
    /\ burstSent = <<>>
    /\ unreported = <<>>
    /\ sigView = <<>>
    /\ firstView = <<>>
    /\ earlier = <<>>
    /\ added = <<>>
    /\ everFailed = <<>>
    /\ drawn = <<>>
    /\ lastMarkers = <<>>
    /\ lastEvent = NoEvent
    /\ lastStep = NoStep
    /\ loadSent = <<>>

(***************************************************************************)
(* Browser timers: setTimeout returns a handle no pending timer and no     *)
(* object holds; clearTimeout drops the pending timer with that handle.    *)
(***************************************************************************)
Fresh(used) ==
    CHOOSE h \in 1..(Cardinality(used) + 1) :
        /\ h \notin used
        /\ \A g \in 1..(h - 1) : g \in used

RECURSIVE FreshSeq(_, _)
FreshSeq(used, n) ==
    IF n = 0 THEN <<>>
    ELSE <<Fresh(used)>> \o FreshSeq(used \cup {Fresh(used)}, n - 1)

FreshTimer ==
    Fresh({ t.h : t \in timers } \cup { _debouncer[o] : o \in Objects })

clearTimeout(ts, h) == { t \in ts : t.h # h }

setTimeout(ts, h, o, delay) == ts \cup { [h |-> h, obj |-> o, left |-> delay] }

EventLoopIdle == \A t \in timers : t.left > 0

(***************************************************************************)
(* new LeafletMap(options): the fields of the object and its widget.  When *)
(* the options carry a center and a zoom (the viewport v) the widget is    *)
(* loaded when whenReady is called and the callback runs at once; when     *)
(* they do not (NoView) the callback waits for a load event.               *)
(***************************************************************************)
whenReadyEager(box, v, id) == sendMessage(box, "leaflet/onDidLoad", [id |-> id])

whenReady(box, v, id) ==
    IF v # NoView THEN sendMessage(box, "leaflet/onDidLoad", [id |-> id])
    ELSE box

NewLeafletMap(id, v) ==
    /\ _id' = Append(_id, id)
    /\ _queueGeoJSON' = Append(_queueGeoJSON, <<>>)
    /\ _lastGeoJSON' = Append(_lastGeoJSON, NoLayer)
    /\ _markers' = Append(_markers, <<>>)
    /\ _debouncer' = Append(_debouncer, NullTimer)
    /\ view' = Append(view, v)
    /\ geoLayers' = Append(geoLayers, {})
    /\ markerLayers' = Append(markerLayers, {})
    /\ _legendDiv' = Append(_legendDiv, "Légende")
    /\ highlighted' = Append(highlighted, {})
    /\ _tooltipDiv' = Append(_tooltipDiv, NoInfo)
    /\ quiet' = Append(quiet, 0)
    /\ burstLen' = Append(burstLen, 0)
    /\ burstSent' = Append(burstSent, 0)
    /\ unreported' = Append(unreported, FALSE)
    /\ sigView' = Append(sigView, v)
    /\ firstView' = Append(firstView, v)
    /\ earlier' = Append(earlier, FALSE)
    /\ added' = Append(added, <<>>)
    /\ everFailed' = Append(everFailed, FALSE)
    /\ drawn' = Append(drawn, <<>>)
    /\ lastMarkers' = Append(lastMarkers, <<>>)
    /\ sent' = whenReady(<<>>, v, id)
    /\ loadSent' = Append(loadSent, Len(whenReady(<<>>, v, id)))
    /\ UNCHANGED <<mgrVars, timers>>

(***************************************************************************)
(* LeafletMap.onMapViewChange                                              *)
(***************************************************************************)
onMapViewChangeNoClear(o) ==
    /\ timers' = setTimeout(timers, FreshTimer, o, DebounceDelay)
    /\ _debouncer' = [_debouncer EXCEPT ![o] = FreshTimer]

onMapViewChangeClearOnly(o) ==
    IF _debouncer[o] # NullTimer /\ \E t \in timers : t.h = _debouncer[o]
    THEN /\ timers' = clearTimeout(timers, _debouncer[o])
         /\ UNCHANGED _debouncer
    ELSE /\ timers' = setTimeout(timers, FreshTimer, o, DebounceDelay)
         /\ _debouncer' = [_debouncer EXCEPT ![o] = FreshTimer]

onMapViewChangeThrottle(o) ==
    IF \E t \in timers : t.obj = o
    THEN UNCHANGED <<timers, _debouncer>>
    ELSE /\ timers' = setTimeout(timers, FreshTimer, o, DebounceDelay)
         /\ _debouncer' = [_debouncer EXCEPT ![o] = FreshTimer]

onMapViewChangeShared(o) ==
    /\ timers' = setTimeout({}, FreshTimer, o, DebounceDelay)
    /\ _debouncer' = [_debouncer EXCEPT ![o] = FreshTimer]

onMapViewChange(o) ==
    LET pending == IF _debouncer[o] # NullTimer
                   THEN clearTimeout(timers, _debouncer[o])
                   ELSE timers
    IN /\ timers' = setTimeout(pending, FreshTimer, o, DebounceDelay)
       /\ _debouncer' = [_debouncer EXCEPT ![o] = FreshTimer]

(***************************************************************************)
(* LeafletMap.sendChange: the data read from the widget when it runs.      *)
(***************************************************************************)
sendChangeDataSwapped(o) ==
    [id |-> _id[o],
     northLat |-> view[o].box.south,
     eastLng |-> view[o].box.east,
     southLat |-> view[o].box.north,
     westLng |-> view[o].box.west,
     zoomLevel |-> view[o].zoom]

sendChangeData(o) ==
    [id |-> _id[o],
     northLat |-> view[o].box.north,
     eastLng |-> view[o].box.east,
     southLat |-> view[o].box.south,
     westLng |-> view[o].box.west,
     zoomLevel |-> view[o].zoom]

sendChange(o) ==
    sent' = sendMessage(<<>>, "leaflet/onDidChangeView", sendChangeData(o))

(***************************************************************************)
(* LeafletMap.addGeoJSON                                                   *)
(***************************************************************************)
addGeoJSONFront(o, id, points, tooltip, color) ==
    _queueGeoJSON' = [_queueGeoJSON EXCEPT ![o] =
        <<[points |-> points, id |-> id, tooltip |-> tooltip, color |-> color]>>
        \o @]

addGeoJSON(o, id, points, tooltip, color) ==
    _queueGeoJSON' = [_queueGeoJSON EXCEPT ![o] =
        Append(@, [points |-> points, id |-> id, tooltip |-> tooltip,
                   color |-> color])]

(***************************************************************************)
(* x[i] in JavaScript, i counted from 0: reading a property of null or     *)
(* undefined throws; an index outside an array, or of a number, gives      *)
(* undefined.                                                              *)
(***************************************************************************)
L_icon(options) == [k |-> "icon", v |-> options]

ReadThrows(x) == x.k \in {"null", "undefined"}

At(x, i) == IF x.k = "arr" /\ i < Len(x.v) THEN x.v[i + 1] ELSE JsUndefined

IsArray(x) == x.k = "arr"

(***************************************************************************)
(* `${n}` for a natural number n.                                          *)
(***************************************************************************)
Digit == <<"0", "1", "2", "3", "4", "5", "6", "7", "8", "9">>

RECURSIVE TemplateString(_)
TemplateString(n) ==
    IF n < 10 THEN Digit[n + 1]
    ELSE TemplateString(n \div 10) \o Digit[(n % 10) + 1]

(***************************************************************************)
(* LeafletMap.drawGeoJSON: the feature built from one queue entry.         *)
(***************************************************************************)
isMultiple(points) ==
    IF ReadThrows(points) \/ ReadThrows(At(points, 0)) THEN FALSE
    ELSE IsArray(At(At(points, 0), 0))

coordinatesOneRing(points) == Arr(<<points>>)

coordinates(points) ==
    IF isMultiple(points)
    THEN Arr([i \in 1..Len(points.v) |-> Arr(<<points.v[i]>>)])
    ELSE Arr(<<points>>)

featureSwapped(e) ==
    [type |-> "Feature",
     properties |-> [id |-> TemplateString(e.id), color |-> e.tooltip,
                     tooltip |-> e.color],
     geometry |-> [type |-> IF isMultiple(e.points) THEN "MultiPolygon"
                            ELSE "Polygon",
                   coordinates |-> coordinates(e.points)]]

feature(e) ==
    [type |-> "Feature",
     properties |-> [id |-> TemplateString(e.id), color |-> e.color,
                     tooltip |-> e.tooltip],
     geometry |-> [type |-> IF isMultiple(e.points) THEN "MultiPolygon"
                            ELSE "Polygon",
                   coordinates |-> coordinates(e.points)]]

finalGeo(o) ==
    [type |-> "FeatureCollection",
     features |-> [i \in 1..Len(_queueGeoJSON[o]) |->
                      feature(_queueGeoJSON[o][i])]]

(***************************************************************************)
(* L.geoJson(finalGeo, ...) converts every coordinate to a LatLng and      *)
(* throws on a ring or coordinate it cannot read.                          *)
(***************************************************************************)
CoordOk(c) ==
    /\ c.k = "arr"
    /\ Len(c.v) >= 2
    /\ c.v[1].k = "num"
    /\ c.v[2].k = "num"

RingOk(r) == r.k = "arr" /\ \A i \in 1..Len(r.v) : CoordOk(r.v[i])

PolygonOk(p) == p.k = "arr" /\ \A i \in 1..Len(p.v) : RingOk(p.v[i])

GeometryOk(g) ==
    IF g.type = "Polygon" THEN PolygonOk(g.coordinates)
    ELSE /\ g.coordinates.k = "arr"
         /\ \A i \in 1..Len(g.coordinates.v) : PolygonOk(g.coordinates.v[i])

geoJsonAccepts(fc) ==
    \A i \in 1..Len(fc.features) : GeometryOk(fc.features[i].geometry)

FreshLayer ==
    Fresh({ _lastGeoJSON[x].h : x \in Objects } \cup UNION { geoLayers[x] : x \in Objects })

(***************************************************************************)
(* LeafletMap.drawGeoJSON                                                  *)
(***************************************************************************)
drawGeoJSONNoRemove(o) ==
    /\ _queueGeoJSON' = [_queueGeoJSON EXCEPT ![o] = <<>>]
    /\ IF geoJsonAccepts(finalGeo(o))
       THEN /\ _lastGeoJSON' = [_lastGeoJSON EXCEPT ![o] =
                   [h |-> FreshLayer, features |-> finalGeo(o).features]]
            /\ geoLayers' = [geoLayers EXCEPT ![o] = @ \cup {FreshLayer}]
       ELSE UNCHANGED <<_lastGeoJSON, geoLayers>>

drawGeoJSONClearLate(o) ==
    LET detached == geoLayers[o] \ {_lastGeoJSON[o].h}
    IN IF geoJsonAccepts(finalGeo(o))
       THEN /\ _queueGeoJSON' = [_queueGeoJSON EXCEPT ![o] = <<>>]
            /\ _lastGeoJSON' = [_lastGeoJSON EXCEPT ![o] =
                   [h |-> FreshLayer, features |-> finalGeo(o).features]]
            /\ geoLayers' = [geoLayers EXCEPT ![o] = detached \cup {FreshLayer}]
       ELSE /\ geoLayers' = [geoLayers EXCEPT ![o] = detached]
            /\ UNCHANGED <<_queueGeoJSON, _lastGeoJSON>>

drawGeoJSON(o) ==
    LET detached == IF _lastGeoJSON[o] # NoLayer
                    THEN geoLayers[o] \ {_lastGeoJSON[o].h}
                    ELSE geoLayers[o]
    IN /\ _queueGeoJSON' = [_queueGeoJSON EXCEPT ![o] = <<>>]
       /\ IF geoJsonAccepts(finalGeo(o))
          THEN /\ _lastGeoJSON' = [_lastGeoJSON EXCEPT ![o] =
                      [h |-> FreshLayer, features |-> finalGeo(o).features]]
               /\ geoLayers' = [geoLayers EXCEPT ![o] =
                      detached \cup {FreshLayer}]
          ELSE /\ geoLayers' = [geoLayers EXCEPT ![o] = detached]
               /\ UNCHANGED _lastGeoJSON

(***************************************************************************)
(* LeafletMap.updateMarkers                                                *)
(***************************************************************************)
MarkersOf(ms) == { ms[i] : i \in 1..Len(ms) }

NewMarkers(used, markers) ==
    [i \in 1..Len(markers) |->
        [h |-> FreshSeq(used, Len(markers))[i],
         latlng |-> <<markers[i].lat, markers[i].lng>>,
         icon |-> JsUndefined,
         popup |-> markers[i].label]]

(***************************************************************************)
(* newMarker.addTo(this._map): the map registers the layer and, being      *)
(* loaded, calls its onAdd at once; Marker.onAdd builds the icon element   *)
(* with options.icon.createIcon(), a read through undefined when the       *)
(* options passed to L.marker hold icon: undefined.  The TypeError leaves   *)
(* the marker registered on the map and ends updateMarkers.                *)
(***************************************************************************)
addToThrows(marker) == marker.icon = JsUndefined

FirstThrow(new) ==
    IF \E i \in 1..Len(new) : addToThrows(new[i])
    THEN CHOOSE i \in 1..Len(new) :
             /\ addToThrows(new[i])
             /\ \A j \in 1..(i - 1) : ~addToThrows(new[j])
    ELSE Len(new) + 1

updateMarkers(o, markers) ==
    LET detached == markerLayers[o] \ MarkersOf(_markers[o])
        others == { x \in Objects : x # o }
        used == { m.h : m \in detached }
                \cup UNION { { m.h : m \in markerLayers[x] } : x \in others }
                \cup UNION { { m.h : m \in MarkersOf(_markers[x]) } : x \in others }
        new == NewMarkers(used, markers)
        stop == FirstThrow(new)
    IN /\ _markers' = [_markers EXCEPT ![o] = SubSeq(new, 1, stop - 1)]
       /\ markerLayers' = [markerLayers EXCEPT ![o] =
              detached \cup { new[i] : i \in 1..Min(stop, Len(new)) }]

(***************************************************************************)
(* The widget fires zoomend / moveend on object o after its viewport       *)
(* became v; both are bound to onMapViewChange (constructor).              *)
(***************************************************************************)
ViewSignal(o, v) ==
    /\ EventLoopIdle
    /\ view' = [view EXCEPT ![o] = v]
    /\ onMapViewChange(o)
    /\ LET fresh == burstLen[o] = 0 \/ quiet[o] >= DebounceDelay
       IN /\ burstLen' = [burstLen EXCEPT ![o] =
                             IF fresh THEN 1 ELSE Min(@ + 1, MaxBurst)]
          /\ burstSent' = [burstSent EXCEPT ![o] = IF fresh THEN 0 ELSE @]
          /\ firstView' = [firstView EXCEPT ![o] = IF fresh THEN v ELSE @]
          /\ earlier' = [earlier EXCEPT ![o] =
                            IF fresh THEN burstSent[o] > 0 ELSE @]
    /\ quiet' = [quiet EXCEPT ![o] = 0]
    /\ unreported' = [unreported EXCEPT ![o] = TRUE]
    /\ sigView' = [sigView EXCEPT ![o] = v]
    /\ sent' = <<>>
    /\ UNCHANGED <<mgrVars, _id, _queueGeoJSON, _lastGeoJSON, _markers,
                   geoLayers, markerLayers, _legendDiv, featVars, geoHist,
                   markHist, msgHist, loadSent>>

ZoomEnd(o, v) ==
    /\ v.zoom # view[o].zoom
    /\ ViewSignal(o, v)

MoveEnd(o, v) ==
    /\ v.zoom = view[o].zoom
    /\ ViewSignal(o, v)

(***************************************************************************)
(* The browser runs an expired timer: its callback is sendChange.          *)
(***************************************************************************)
TimerFire(t) ==
    /\ t.left = 0
    /\ timers' = timers \ {t}
    /\ sendChange(t.obj)
    /\ burstSent' = [burstSent EXCEPT ![t.obj] = @ + 1]
    /\ unreported' = [unreported EXCEPT ![t.obj] = FALSE]
    /\ UNCHANGED <<mgrVars, objVars, widgetVars, quiet, burstLen, sigView,
                   firstView, earlier, geoHist, markHist, msgHist, loadSent>>

(***************************************************************************)
(* Time passes: at most DebounceDelay / 2^Granularity at once, and never   *)
(* past the expiry of a pending timer.                                     *)
(***************************************************************************)
TickMs == DebounceDelay \div (2 ^ Granularity)

Elapse ==
    IF timers = {} THEN TickMs
    ELSE Min(TickMs, CHOOSE d \in { t.left : t \in timers } :
                        \A t \in timers : d <= t.left)

Tick ==
    /\ EventLoopIdle
    /\ timers' = { [t EXCEPT !.left = @ - Elapse] : t \in timers }
    /\ quiet' = [o \in Objects |-> Min(quiet[o] + Elapse, DebounceDelay + 1)]
    /\ sent' = <<>>
    /\ UNCHANGED <<mgrVars, objVars, widgetVars, burstLen, burstSent,
                   unreported, sigView, firstView, earlier, geoHist, markHist,
                   msgHist, loadSent>>

(***************************************************************************)
(* Calls of the drawing methods of object o, each run as one task.         *)
(***************************************************************************)
AddGeoJSON(o, c) ==
    /\ EventLoopIdle
    /\ Len(_queueGeoJSON[o]) < MaxQueue
    /\ Len(added[o]) < MaxQueue
    /\ addGeoJSON(o, c.id, c.points, c.tooltip, c.color)
    /\ added' = [added EXCEPT ![o] = Append(@, c)]
    /\ sent' = <<>>
    /\ UNCHANGED <<mgrVars, _id, _lastGeoJSON, _markers, _debouncer,
                   widgetVars, timers, viewHist, everFailed, drawn, markHist,
                   msgHist, loadSent>>

DrawGeoJSON(o) ==
    /\ EventLoopIdle
    /\ drawGeoJSON(o)
    /\ added' = [added EXCEPT ![o] = <<>>]
    /\ everFailed' = [everFailed EXCEPT ![o] =
                         @ \/ ~geoJsonAccepts(finalGeo(o))]
    /\ drawn' = [drawn EXCEPT ![o] =
                    IF geoJsonAccepts(finalGeo(o)) THEN added[o] ELSE @]
    /\ highlighted' = [highlighted EXCEPT ![o] = {}]
    /\ sent' = <<>>
    /\ UNCHANGED <<mgrVars, _id, _markers, _debouncer, view, markerLayers,
                   _legendDiv, _tooltipDiv, timers, viewHist, markHist,
                   msgHist, loadSent>>

UpdateMarkers(o, markers) ==
    /\ EventLoopIdle
    /\ Cardinality(markerLayers[o]) < MaxRegistered
    /\ updateMarkers(o, markers)
    /\ lastMarkers' = [lastMarkers EXCEPT ![o] = markers]
    /\ sent' = <<>>
    /\ UNCHANGED <<mgrVars, _id, _queueGeoJSON, _lastGeoJSON, _debouncer,
                   view, geoLayers, _legendDiv, featVars, timers, viewHist,
                   geoHist, loadSent>>

(***************************************************************************)
(* LeafletMap.updateLegend                                                 *)
(***************************************************************************)
updateLegend(o, content) ==
    _legendDiv' = [_legendDiv EXCEPT ![o] = content]

UpdateLegend(o, content) ==
    /\ EventLoopIdle
    /\ updateLegend(o, content)
    /\ sent' = <<>>
    /\ UNCHANGED <<mgrVars, objVars, view, geoLayers, markerLayers, featVars,
                   timers, viewHist, geoHist, markHist, loadSent>>

(***************************************************************************)
(* The handlers drawGeoJSON binds to every feature of the layer it builds  *)
(* (onEachFeature).  highlightFeature restyles the feature and brings it   *)
(* to front, resetHighlight restores its style; each then reads            *)
(* this._mapInfo.update, and the class has no field _mapInfo (the info     *)
(* control is this._tooltip): the read throws a TypeError and the info     *)
(* control keeps its content.                                              *)
(***************************************************************************)
highlightFeature(o, i) ==
    /\ highlighted' = [highlighted EXCEPT ![o] = @ \cup {i}]
    /\ UNCHANGED _tooltipDiv

resetHighlight(o, i) ==
    /\ highlighted' = [highlighted EXCEPT ![o] = @ \ {i}]
    /\ UNCHANGED _tooltipDiv

zoomToFeatureDataFirst(o, i) ==
    [id |-> _id[o], zoneId |-> _lastGeoJSON[o].features[1].properties.id]

zoomToFeatureData(o, i) ==
    [id |-> _id[o], zoneId |-> _lastGeoJSON[o].features[i].properties.id]

zoomToFeature(box, o, i) ==
    sendMessage(box, "onDidClickZone", zoomToFeatureData(o, i))

(***************************************************************************)
(* The click listener the constructor puts on the map.                     *)
(***************************************************************************)
onClickMap(box, o, latlng) ==
    sendMessage(box, "leaflet/onDidClickMap",
                [id |-> _id[o], lat |-> latlng[1], lng |-> latlng[2]])

(***************************************************************************)
(* Pointer events of the widget.  The features that can receive them are   *)
(* those of the attached layer that have a path on screen (a polygon       *)
(* without points has none).  The pointer is over one feature at a         *)
(* time, and a mouseout follows the mouseover of the same feature.  A      *)
(* click on a feature runs the feature's listener and then, the event      *)
(* bubbling to the map, the map's.                                         *)
(***************************************************************************)
ClickPoints == { <<1, 2>>, <<5, 6>> }

HasPath(geometry) ==
    IF geometry.type = "Polygon"
    THEN Len(geometry.coordinates.v[1].v) > 0
    ELSE \E j \in 1..Len(geometry.coordinates.v) :
            Len(geometry.coordinates.v[j].v[1].v) > 0

FeaturesShown(o) ==
    IF _lastGeoJSON[o] # NoLayer /\ _lastGeoJSON[o].h \in geoLayers[o]
    THEN { i \in 1..Len(_lastGeoJSON[o].features) :
             HasPath(_lastGeoJSON[o].features[i].geometry) }
    ELSE {}

MouseOver(o, i) ==
    /\ EventLoopIdle
    /\ i \in FeaturesShown(o)
    /\ highlighted[o] = {}
    /\ highlightFeature(o, i)
    /\ sent' = <<>>
    /\ UNCHANGED <<mgrVars, objVars, view, geoLayers, markerLayers, _legendDiv,
                   timers, viewHist, geoHist, markHist, msgHist, loadSent>>

MouseOut(o, i) ==
    /\ EventLoopIdle
    /\ i \in FeaturesShown(o)
    /\ i \in highlighted[o]
    /\ resetHighlight(o, i)
    /\ sent' = <<>>
    /\ UNCHANGED <<mgrVars, objVars, view, geoLayers, markerLayers, _legendDiv,
                   timers, viewHist, geoHist, markHist, msgHist, loadSent>>

ClickFeature(o, i, latlng) ==
    /\ EventLoopIdle
    /\ i \in FeaturesShown(o)
    /\ sent' = onClickMap(zoomToFeature(<<>>, o, i), o, latlng)
    /\ UNCHANGED <<mgrVars, objVars, widgetVars, timers, viewHist, geoHist,
                   markHist, msgHist, loadSent>>

ClickMap(o, latlng) ==
    /\ EventLoopIdle
    /\ view[o] # NoView
    /\ sent' = onClickMap(<<>>, o, latlng)
    /\ UNCHANGED <<mgrVars, objVars, widgetVars, timers, viewHist, geoHist,
                   markHist, msgHist, loadSent>>

(***************************************************************************)
(* A task that changes nothing and sends nothing: a dropped message, an    *)
(* empty method (loadingShow, loadingHide), or a call of a method the      *)
(* class does not define (setView, setZoom, fitBounds, flushGeoJSON),      *)
(* which throws a TypeError before anything is done.                       *)
(***************************************************************************)
NoEffect ==
    /\ sent' = <<>>
    /\ UNCHANGED <<mgrVars, objVars, widgetVars, timers, viewHist, geoHist,
                   markHist, loadSent>>

(***************************************************************************)
(* LeafletMapManager.getMap: the first registered object with that id,     *)
(* or Undefined.                                                           *)
(***************************************************************************)
getMapOrFirst(mapId) ==
    IF \E i \in 1..Len(_maps) : _id[_maps[i]] = mapId
    THEN _maps[CHOOSE i \in 1..Len(_maps) : _id[_maps[i]] = mapId]
    ELSE IF _maps # <<>> THEN _maps[1] ELSE Undefined

getMap(mapId) ==
    IF \E i \in 1..Len(_maps) : _id[_maps[i]] = mapId
    THEN _maps[CHOOSE i \in 1..Len(_maps) :
                  /\ _id[_maps[i]] = mapId
                  /\ \A j \in 1..(i - 1) : _id[_maps[j]] # mapId]
    ELSE Undefined

(***************************************************************************)
(* The handler of RPGM's didEnterStep event.                               *)
(***************************************************************************)
DidEnterStepNoCache(stepId) ==
    /\ EventLoopIdle
    /\ sent' = sendMessage(<<>>, "leaflet/onDidEnterStep", [stepId |-> stepId])
    /\ lastEvent' = [message |-> "didEnterStep", mapId |-> NoMapId]
    /\ lastStep' = [set |-> TRUE, stepId |-> stepId]
    /\ UNCHANGED <<mgrVars, objVars, widgetVars, timers, viewHist,
                   geoHist, markHist, loadSent>>

DidEnterStep(stepId) ==
    /\ EventLoopIdle
    /\ _currentStepCache' = [set |-> TRUE, stepId |-> stepId]
    /\ sent' = sendMessage(<<>>, "leaflet/onDidEnterStep", [stepId |-> stepId])
    /\ lastEvent' = [message |-> "didEnterStep", mapId |-> NoMapId]
    /\ lastStep' = [set |-> TRUE, stepId |-> stepId]
    /\ UNCHANGED <<_maps, _icons, objVars, widgetVars, timers, viewHist,
                   geoHist, markHist, loadSent>>

(***************************************************************************)
(* The handler of RPGM's didReceiveMessage event.  A payload without a     *)
(* mapId reads as the id NoMapId, which no map has.                        *)
(***************************************************************************)
MapIdOf(data) == IF "mapId" \in DOMAIN data THEN data.mapId ELSE NoMapId

DispatchLegendLast(mapInstance, message, data) ==
    IF message = "leaflet/markers/update"
    THEN UpdateMarkers(mapInstance, data.markers)
    ELSE IF message = "leaflet/geojson/add"
    THEN /\ Len(_queueGeoJSON[mapInstance]) < MaxQueue
         /\ addGeoJSON(mapInstance, data.zoneId, data.points, data.tooltip,
                       data.color)
         /\ added' = [added EXCEPT ![mapInstance] =
                Append(@, [id |-> data.zoneId, points |-> data.points,
                           tooltip |-> data.tooltip, color |-> data.color])]
         /\ sent' = <<>>
         /\ UNCHANGED <<mgrVars, _id, _lastGeoJSON, _markers, _debouncer,
                        widgetVars, timers, viewHist, everFailed, drawn,
                        markHist, loadSent>>
    ELSE IF message \in { "leaflet/map/view", "leaflet/map/zoom",
                          "leaflet/map/fit", "leaflet/geojson/flush",
                          "leaflet/loading/show", "leaflet/loading/false" }
    THEN NoEffect
    ELSE UpdateLegend(mapInstance, IF "content" \in DOMAIN data
                                   THEN data.content ELSE "undefined")

Dispatch(mapInstance, message, data) ==
    IF message = "leaflet/markers/update"
    THEN UpdateMarkers(mapInstance, data.markers)
    ELSE IF message = "leaflet/legend/update"
    THEN UpdateLegend(mapInstance, data.content)
    ELSE IF message = "leaflet/geojson/add"
    THEN /\ Len(_queueGeoJSON[mapInstance]) < MaxQueue
         /\ addGeoJSON(mapInstance, data.zoneId, data.points, data.tooltip,
                       data.color)
         /\ added' = [added EXCEPT ![mapInstance] =
                Append(@, [id |-> data.zoneId, points |-> data.points,
                           tooltip |-> data.tooltip, color |-> data.color])]
         /\ sent' = <<>>
         /\ UNCHANGED <<mgrVars, _id, _lastGeoJSON, _markers, _debouncer,
                        widgetVars, timers, viewHist, everFailed, drawn,
                        markHist, loadSent>>
    ELSE NoEffect

DidReceiveMessage(message, data) ==
    /\ EventLoopIdle
    /\ lastEvent' = [message |-> message, mapId |-> MapIdOf(data)]
    /\ UNCHANGED lastStep
    /\ IF message = "leaflet/enterStep" /\ _currentStepCache.set
       THEN /\ sent' = sendMessage(<<>>, "leaflet/onDidEnterStep",
                                   [stepId |-> _currentStepCache.stepId])
            /\ UNCHANGED <<mgrVars, objVars, widgetVars, timers, viewHist,
                           geoHist, markHist, loadSent>>
       ELSE IF message = "leaflet/icon/create"
       THEN /\ _icons' = [i \in DOMAIN _icons \cup {data.iconId} |->
                             IF i = data.iconId THEN L_icon(data.options)
                             ELSE _icons[i]]
            /\ sent' = <<>>
            /\ UNCHANGED <<_currentStepCache, _maps, objVars, widgetVars,
                           timers, viewHist, geoHist, markHist, loadSent>>
       ELSE IF message = "leaflet/initialize"
       THEN /\ Len(_id) < MaxMaps
            /\ NewLeafletMap(data.mapId, data.options)
       ELSE IF getMap(MapIdOf(data)) = Undefined
       THEN NoEffect
       ELSE Dispatch(getMap(MapIdOf(data)), message, data)

(***************************************************************************)
(* A caller of the class constructs the maps of MapIdSeq, in order.        *)
(***************************************************************************)
Construct(id, v) ==
    /\ EventLoopIdle
    /\ Len(_id) < MaxMaps
    /\ id = MapIdSeq[Len(_id) + 1]
    /\ NewLeafletMap(id, v)
    /\ UNCHANGED msgHist

NextViewOf(VS) ==
    \/ \E id \in MapIds, v \in VS : Construct(id, v)
    \/ \E o \in Objects, v \in VS : ZoomEnd(o, v)
    \/ \E o \in Objects, v \in VS : MoveEnd(o, v)
    \/ \E t \in timers : TimerFire(t)
    \/ Tick

NextView == NextViewOf(Viewports)

SpecView == Init /\ [][NextView]_vars

(***************************************************************************)
(* The browser keeps time moving and runs expired timers.  The viewports   *)
(* of this specification are two, one per zoom level.                      *)
(***************************************************************************)
ViewportsFair == { v \in Viewports : v.box = BoxB }

NextViewFair == NextViewOf(ViewportsFair)

SpecViewFair ==
    /\ Init /\ [][NextViewFair]_vars
    /\ WF_vars(Tick)
    /\ WF_vars(\E t \in timers : TimerFire(t))

(***************************************************************************)
(* The drawing methods called in any order: addGeoJSON and drawGeoJSON on  *)
(* one map, updateMarkers on the maps of MapIdSeq.                         *)
(***************************************************************************)
InitialView == [box |-> BoxA, zoom |-> 10]

ConstructOne(id) ==
    /\ Len(_id) = 0
    /\ NewLeafletMap(id, InitialView)
    /\ UNCHANGED msgHist

NextGeo ==
    \/ \E id \in MapIds : ConstructOne(id)
    \/ \E o \in Objects, c \in AddCalls : AddGeoJSON(o, c)
    \/ \E o \in Objects : DrawGeoJSON(o)

SpecGeo == Init /\ [][NextGeo]_vars

(***************************************************************************)
(* The drawing methods and the pointer events on the features drawn.       *)
(***************************************************************************)
NextFeatures ==
    \/ \E id \in MapIds : ConstructOne(id)
    \/ \E o \in Objects, c \in AddCalls : AddGeoJSON(o, c)
    \/ \E o \in Objects : DrawGeoJSON(o)
    \/ \E o \in Objects, i \in 1..MaxQueue : MouseOver(o, i)
    \/ \E o \in Objects, i \in 1..MaxQueue : MouseOut(o, i)
    \/ \E o \in Objects, i \in 1..MaxQueue, p \in ClickPoints :
          ClickFeature(o, i, p)
    \/ \E o \in Objects, p \in ClickPoints : ClickMap(o, p)

SpecFeatures == Init /\ [][NextFeatures]_vars

NextMarkers ==
    \/ \E id \in MapIds : Construct(id, InitialView)
    \/ \E o \in Objects, ms \in SeqsUpTo(MarkerEntries, MaxMarkers) :
          UpdateMarkers(o, ms) /\ UNCHANGED msgHist

SpecMarkers == Init /\ [][NextMarkers]_vars

(***************************************************************************)
(* Two maps side by side, built at different zoom levels: the moves of     *)
(* both (each to BoxB at its own zoom level) and the timers they set,      *)
(* addGeoJSON and drawGeoJSON calls on the first and updateMarkers calls   *)
(* on the second, in any order.                                            *)
(***************************************************************************)
SessionAdd == [id |-> 7, points |-> RingA, tooltip |-> "t", color |-> "red"]

SessionMarkers == { <<>>, <<[lat |-> 1, lng |-> 2, label |-> "a", icon |-> "i1"]>> }

SessionViews == <<[box |-> BoxA, zoom |-> 10], [box |-> BoxA, zoom |-> 11]>>

NextSessions ==
    \/ \E k \in 1..MaxMaps : Construct(MapIdSeq[k], SessionViews[k])
    \/ \E o \in Objects, v \in ViewportsFair : MoveEnd(o, v)
    \/ \E t \in timers : TimerFire(t)
    \/ Tick
    \/ \E o \in Objects : o = 1 /\ AddGeoJSON(o, SessionAdd)
    \/ \E o \in Objects : o = 1 /\ DrawGeoJSON(o)
    \/ \E o \in Objects, ms \in SessionMarkers :
          o = 2 /\ UpdateMarkers(o, ms) /\ UNCHANGED msgHist

SpecSessions == Init /\ [][NextSessions]_vars

(***************************************************************************)
(* One map and everything that acts on it: its view signals and timers,    *)
(* and calls of addGeoJSON, drawGeoJSON, updateMarkers and updateLegend.   *)
(***************************************************************************)
MapAdds == { c \in AddCalls : c.points # JsNull /\ c.points # Arr(<<>>) }

NextMap ==
    \/ \E id \in MapIds : ConstructOne(id)
    \/ \E o \in Objects, v \in ViewportsFair : MoveEnd(o, v)
    \/ \E t \in timers : TimerFire(t)
    \/ Tick
    \/ \E o \in Objects, c \in MapAdds : AddGeoJSON(o, c)
    \/ \E o \in Objects : DrawGeoJSON(o)
    \/ \E o \in Objects, ms \in SessionMarkers :
          UpdateMarkers(o, ms) /\ UNCHANGED msgHist
    \/ \E o \in Objects, content \in {"<b>1</b>"} :
          UpdateLegend(o, content) /\ UNCHANGED msgHist

SpecMap == Init /\ [][NextMap]_vars

(***************************************************************************)
(* icon/create messages and updateMarkers calls on one map, in any order.  *)
(***************************************************************************)
IconIds == {"i1", "i2"}

IconOptions == {"pin.png", "flag.png"}

NextIcons ==
    \/ \E id \in MapIds : ConstructOne(id)
    \/ \E i \in IconIds, opt \in IconOptions :
          DidReceiveMessage("leaflet/icon/create", [iconId |-> i, options |-> opt])
    \/ \E o \in Objects, ms \in SeqsUpTo(MarkerEntries, MaxMarkers) :
          UpdateMarkers(o, ms) /\ UNCHANGED msgHist

SpecIcons == Init /\ [][NextIcons]_vars

(***************************************************************************)
(* The module as loaded in the application: step events and messages of   *)
(* every tag of the catalog, and one tag outside it.                       *)
(***************************************************************************)
StepIds == {7, 8}

MapTags ==
    { "leaflet/map/view", "leaflet/map/zoom", "leaflet/map/fit",
      "leaflet/geojson/flush", "leaflet/loading/show", "leaflet/loading/false" }

Next ==
    \/ \E stepId \in StepIds : DidEnterStep(stepId)
    \/ DidReceiveMessage("leaflet/enterStep", <<>>)
    \/ \E i \in IconIds, opt \in IconOptions :
          DidReceiveMessage("leaflet/icon/create", [iconId |-> i, options |-> opt])
    \/ \E id \in MapIds, v \in {InitialView, NoView} :
          DidReceiveMessage("leaflet/initialize", [mapId |-> id, options |-> v])
    \/ \E id \in MapIds, tag \in MapTags :
          DidReceiveMessage(tag, [mapId |-> id])
    \/ \E id \in MapIds, ms \in SeqsUpTo(MarkerEntries, MaxMarkers) :
          DidReceiveMessage("leaflet/markers/update",
                            [mapId |-> id, markers |-> ms])
    \/ \E id \in MapIds, content \in {"<b>x</b>"} :
          DidReceiveMessage("leaflet/legend/update",
                            [mapId |-> id, content |-> content])
    \/ \E id \in MapIds, c \in AddCalls :
          DidReceiveMessage("leaflet/geojson/add",
                            [mapId |-> id, zoneId |-> c.id, points |-> c.points,
                             tooltip |-> c.tooltip, color |-> c.color])
    \/ \E data \in {<<>>} \cup { [mapId |-> id] : id \in MapIds } :
          DidReceiveMessage("leaflet/unknown", data)

Spec == Init /\ [][Next]_vars

(***************************************************************************)
(* The dispatcher with sessions in its registry.  The initialize branch    *)
(* never stores the object it constructs, so in Spec the array _maps stays *)
(* empty; here a caller of the module stores it                            *)
(* (LeafletMapManager._maps.push(mapInstance)), which makes the branches   *)
(* behind getMap reachable.  Maps are created in the order of MapIdSeq.    *)
(***************************************************************************)
Register(o) ==
    /\ EventLoopIdle
    /\ \A i \in 1..Len(_maps) : _maps[i] # o
    /\ _maps' = Append(_maps, o)
    /\ sent' = <<>>
    /\ lastEvent' = NoEvent
    /\ UNCHANGED <<_currentStepCache, _icons, objVars, widgetVars, timers,
                   viewHist, geoHist, markHist, lastStep, loadSent>>

RegisteredAdd == [id |-> 7, points |-> RingA, tooltip |-> "t", color |-> "red"]

RegisteredMarkers ==
    { <<>>, <<[lat |-> 1, lng |-> 2, label |-> "a", icon |-> "i1"]>> }

PlainTags == MapTags \cup { "leaflet/unknown" }

NextRegistered ==
    \/ \E id \in MapIds :
          /\ Len(_id) < MaxMaps
          /\ id = MapIdSeq[Len(_id) + 1]
          /\ DidReceiveMessage("leaflet/initialize",
                               [mapId |-> id, options |-> InitialView])
    \/ \E o \in Objects : Register(o)
    \/ \E id \in MapIds, tag \in PlainTags :
          DidReceiveMessage(tag, [mapId |-> id])
    \/ \E id \in MapIds, ms \in RegisteredMarkers :
          DidReceiveMessage("leaflet/markers/update",
                            [mapId |-> id, markers |-> ms])
    \/ \E id \in MapIds, content \in {"<b>x</b>"} :
          DidReceiveMessage("leaflet/legend/update",
                            [mapId |-> id, content |-> content])
    \/ \E id \in MapIds, c \in {RegisteredAdd} :
          DidReceiveMessage("leaflet/geojson/add",
                            [mapId |-> id, zoneId |-> c.id, points |-> c.points,
                             tooltip |-> c.tooltip, color |-> c.color])

SpecRegistered == Init /\ [][NextRegistered]_vars

(***************************************************************************)
(* C1: for every burst of N >= 1 view-change signals, each less than       *)
(* DebounceDelay after the previous one, no onDidChangeView is sent while  *)
(* the burst is in progress, and exactly one has been sent once more than  *)
(* DebounceDelay has passed since the burst's last signal.                 *)
(***************************************************************************)
C1_OneEventPerBurst ==
    \A o \in Objects :
        burstLen[o] >= 1 =>
            /\ burstSent[o] <= 1
            /\ quiet[o] < DebounceDelay => burstSent[o] = 0
            /\ quiet[o] > DebounceDelay => burstSent[o] = 1

C1_Witness ==
    \E o \in Objects :
        /\ burstLen[o] >= 2
        /\ quiet[o] > DebounceDelay
        /\ burstSent[o] = 1

(***************************************************************************)
(* C2: a step that sends an object's onDidChangeView sends exactly that    *)
(* message, carrying the bounds and zoom the widget had at the object's    *)
(* last view-change signal, hence not those of an earlier signal of the    *)
(* burst when they differ.                                                 *)
(***************************************************************************)
ChangeViewOf(o, v) ==
    [message |-> "leaflet/onDidChangeView",
     data |-> [id |-> _id[o],
               northLat |-> v.box.north, eastLng |-> v.box.east,
               southLat |-> v.box.south, westLng |-> v.box.west,
               zoomLevel |-> v.zoom]]

C2_FinalViewportReported ==
    [][\A o \in Objects :
          burstSent'[o] = burstSent[o] + 1 =>
              /\ sent' = <<ChangeViewOf(o, sigView[o])>>
              /\ firstView[o] # sigView[o] =>
                     sent' # <<ChangeViewOf(o, firstView[o])>>]_vars

C2_Witness ==
    \E o \in Objects :
        /\ burstLen[o] >= 2
        /\ firstView[o] # sigView[o]
        /\ burstSent[o] = 1
        /\ sent = <<ChangeViewOf(o, sigView[o])>>

(***************************************************************************)
(* C3: every pending timer is the one its object set last, so an object    *)
(* has at most one pending timer and a replaced timer is never pending     *)
(* and never runs; an onDidChangeView is sent only by the expiry of the    *)
(* object's last timer, at most once per burst.                            *)
(***************************************************************************)
C3_SingleLiveTimer ==
    /\ [](\A o \in Objects :
            /\ Cardinality({ t \in timers : t.obj = o }) <= 1
            /\ \A t \in timers : t.obj = o => t.h = _debouncer[o]
            /\ burstSent[o] <= 1)
    /\ [][\A o \in Objects :
            burstSent'[o] = burstSent[o] + 1 =>
                \E t \in timers :
                    /\ t.obj = o
                    /\ t.h = _debouncer[o]
                    /\ t.left = 0
                    /\ t \notin timers']_vars

C3_Witness ==
    \E o \in Objects :
        /\ burstLen[o] >= 2
        /\ burstSent[o] = 0
        /\ \E t \in timers : t.obj = o /\ t.left < DebounceDelay

(***************************************************************************)
(* C4: if view-change signals eventually stop, every signal of every       *)
(* object is eventually followed by an onDidChangeView of that object,     *)
(* also in a burst that began after an earlier onDidChangeView.            *)
(***************************************************************************)
SignalStep == \E o \in Objects, v \in Viewports : ViewSignal(o, v)

Unreported(o) == o \in Objects /\ unreported[o]

C4_EventuallyReported ==
    (<>[][~SignalStep]_vars) =>
        \A o \in 1..MaxMaps : [](Unreported(o) => <>(~Unreported(o)))

C4_Witness ==
    \E o \in Objects :
        /\ earlier[o]
        /\ burstSent[o] = 1
        /\ ~unreported[o]

(***************************************************************************)
(* C5: once an initialize message for map id M has been handled, getMap(M) *)
(* returns a map object whose id is M, so that later messages carrying M   *)
(* reach it.                                                               *)
(***************************************************************************)
C5_LookupAfterInitialize ==
    \A o \in Objects :
        /\ getMap(_id[o]) \in Objects
        /\ _id[getMap(_id[o])] = _id[o]

(***************************************************************************)
(* C6: a drawGeoJSON that the renderer accepts, run after n >= 0           *)
(* addGeoJSON calls since the previous drawGeoJSON, leaves exactly one     *)
(* layer attached, a new one, holding n features: the i-th carries the     *)
(* zone id (as text), the color and the tooltip of the i-th call.  With    *)
(* n = 0 the previous layer is still removed and the new layer is empty.   *)
(***************************************************************************)
PropertiesOf(c) ==
    [id |-> TemplateString(c.id), color |-> c.color, tooltip |-> c.tooltip]

C6_FlushRendersAdds ==
    [][\A o \in Objects :
          DrawGeoJSON(o) /\ geoJsonAccepts(finalGeo(o)) =>
              LET layer == _lastGeoJSON'[o]
              IN /\ geoLayers'[o] = {layer.h}
                 /\ layer.h \notin geoLayers[o]
                 /\ Len(layer.features) = Len(added[o])
                 /\ \A i \in 1..Len(added[o]) :
                       layer.features[i].properties = PropertiesOf(added[o][i])]_vars

C6_Witness ==
    \E o \in Objects :
        /\ geoLayers[o] = {_lastGeoJSON[o].h}
        /\ added[o] = <<>>
        /\ Len(_lastGeoJSON[o].features) = MaxQueue
        /\ _lastGeoJSON[o].features[1].properties
              # _lastGeoJSON[o].features[2].properties

(***************************************************************************)
(* C7: in every reachable state, also after a drawGeoJSON that threw, a    *)
(* map has at most one GeoJSON layer attached, and it is the last one      *)
(* drawGeoJSON built.                                                      *)
(***************************************************************************)
C7_AtMostOneLayer ==
    \A o \in Objects :
        /\ Cardinality(geoLayers[o]) <= 1
        /\ geoLayers[o] \subseteq {_lastGeoJSON[o].h}

C7_Witness ==
    \E o \in Objects :
        /\ everFailed[o]
        /\ Cardinality(geoLayers[o]) = 1
        /\ Len(_lastGeoJSON[o].features) >= 1

(***************************************************************************)
(* C8: every drawGeoJSON, accepted by the renderer or not, leaves the      *)
(* queue empty; so the queue always holds exactly the calls made since     *)
(* the last drawGeoJSON, and a later drawGeoJSON builds nothing older.     *)
(***************************************************************************)
QueueEntryOf(c) ==
    [points |-> c.points, id |-> c.id, tooltip |-> c.tooltip, color |-> c.color]

C8_QueueClearedByFlush ==
    /\ [][\A o \in Objects : DrawGeoJSON(o) => _queueGeoJSON'[o] = <<>>]_vars
    /\ [](\A o \in Objects :
            /\ Len(_queueGeoJSON[o]) = Len(added[o])
            /\ \A i \in 1..Len(added[o]) :
                  _queueGeoJSON[o][i] = QueueEntryOf(added[o][i]))

C8_Witness ==
    \E o \in Objects :
        /\ everFailed[o]
        /\ geoLayers[o] = {}
        /\ Len(_queueGeoJSON[o]) = 1
        /\ GeometryOk(feature(_queueGeoJSON[o][1]).geometry)

(***************************************************************************)
(* C9: in the layer of an accepted drawGeoJSON, the geometry of a feature  *)
(* is a MultiPolygon with one single-ring polygon per element of `points`  *)
(* when points[0][0] exists and is an array, and otherwise a Polygon whose *)
(* only ring is `points`.                                                  *)
(***************************************************************************)
IsRingSequence(p) ==
    /\ p.k = "arr"
    /\ Len(p.v) >= 1
    /\ p.v[1].k = "arr"
    /\ Len(p.v[1].v) >= 1
    /\ p.v[1].v[1].k = "arr"

GeometryOf(p) ==
    IF IsRingSequence(p)
    THEN [type |-> "MultiPolygon",
          coordinates |-> Arr([i \in 1..Len(p.v) |-> Arr(<<p.v[i]>>)])]
    ELSE [type |-> "Polygon", coordinates |-> Arr(<<p>>)]

C9_ShapeClassification ==
    [][\A o \in Objects :
          DrawGeoJSON(o) /\ geoJsonAccepts(finalGeo(o)) =>
              /\ Len(_lastGeoJSON'[o].features) = Len(added[o])
              /\ \A i \in 1..Len(added[o]) :
                    _lastGeoJSON'[o].features[i].geometry
                        = GeometryOf(added[o][i].points)]_vars

C9_Witness ==
    \E o \in Objects :
        /\ geoLayers[o] = {_lastGeoJSON[o].h}
        /\ Len(_lastGeoJSON[o].features) = MaxQueue
        /\ _lastGeoJSON[o].features[1].geometry.type = "Polygon"
        /\ _lastGeoJSON[o].features[2].geometry.type = "MultiPolygon"

(***************************************************************************)
(* C10: after any sequence of updateMarkers calls, the markers attached to *)
(* a map are exactly those the last call created, one per entry and in     *)
(* order, at the entry's position and with its label; none of an earlier   *)
(* call is left, and none at all after a call with an empty array.         *)
(***************************************************************************)
C10_MarkersReplaced ==
    \A o \in Objects :
        /\ Len(_markers[o]) = Len(lastMarkers[o])
        /\ Cardinality(markerLayers[o]) = Len(lastMarkers[o])
        /\ \A i \in 1..Len(lastMarkers[o]) :
              /\ _markers[o][i] \in markerLayers[o]
              /\ _markers[o][i].latlng
                    = <<lastMarkers[o][i].lat, lastMarkers[o][i].lng>>
              /\ _markers[o][i].popup = lastMarkers[o][i].label

(***************************************************************************)
(* C11: an updateMarkers call attaches one marker per entry; the marker of *)
(* an entry whose icon id has a definition in the icon table (the latest   *)
(* icon/create under that id) carries that definition, the marker of an    *)
(* entry whose icon id has none carries no icon, and the entries after it  *)
(* are attached all the same.                                              *)
(***************************************************************************)
IconOf(entry) ==
    IF entry.icon \in DOMAIN _icons THEN _icons[entry.icon] ELSE JsUndefined

C11_IconResolved ==
    [][\A o \in Objects, ms \in SeqsUpTo(MarkerEntries, MaxMarkers) :
          UpdateMarkers(o, ms) =>
              /\ Len(_markers'[o]) = Len(ms)
              /\ \A i \in 1..Len(ms) :
                    /\ _markers'[o][i] \in markerLayers'[o]
                    /\ _markers'[o][i].icon = IconOf(ms[i])]_vars

(***************************************************************************)
(* C12: handling a message of one of the nine map-scoped tags whose mapId  *)
(* no map of the registry has changes nothing of the manager, of any       *)
(* LeafletMap object, of any widget and of the timers, and sends nothing.  *)
(***************************************************************************)
Registered(mapId) == \E i \in 1..Len(_maps) : _id[_maps[i]] = mapId

MapScopedTags ==
    MapTags \cup { "leaflet/markers/update", "leaflet/legend/update",
                   "leaflet/geojson/add" }

C12_UnknownMapDropped ==
    [][(lastEvent'.message \in MapScopedTags /\ ~Registered(lastEvent'.mapId))
          => /\ UNCHANGED <<mgrVars, objVars, widgetVars, timers>>
             /\ sent' = <<>>]_vars

C12_Witness ==
    /\ lastEvent.message = "leaflet/markers/update"
    /\ ~Registered(lastEvent.mapId)
    /\ \E o \in Objects : _id[o] = lastEvent.mapId
    /\ \E i \in 1..Len(_maps) : markerLayers[_maps[i]] # {}

(***************************************************************************)
(* C13: once a didEnterStep event has occurred, handling an enterStep      *)
(* message sends exactly one onDidEnterStep, carrying the step id of the   *)
(* most recent didEnterStep, and leaves the cached id as it was; handling  *)
(* a didEnterStep sends exactly one onDidEnterStep carrying its own id.    *)
(***************************************************************************)
OnDidEnterStep(stepId) ==
    <<[message |-> "leaflet/onDidEnterStep", data |-> [stepId |-> stepId]]>>

C13_ReNotify ==
    [][/\ (lastEvent'.message = "leaflet/enterStep" /\ lastStep.set)
             => /\ sent' = OnDidEnterStep(lastStep.stepId)
                /\ UNCHANGED _currentStepCache
       /\ lastEvent'.message = "didEnterStep"
             => sent' = OnDidEnterStep(lastStep'.stepId)]_vars

C13_Witness ==
    /\ lastEvent.message = "leaflet/enterStep"
    /\ lastStep = [set |-> TRUE, stepId |-> 8]
    /\ sent = OnDidEnterStep(8)
    /\ _id # <<>>

(***************************************************************************)
(* C14: handling a message whose tag no branch of the handler names        *)
(* changes nothing of the manager, of any LeafletMap object, of any widget *)
(* and of the timers, and sends nothing, also when its mapId is the id of  *)
(* a map of the registry.                                                  *)
(***************************************************************************)
UnknownTags == { "leaflet/unknown" }

C14_UnknownTagIgnored ==
    [][lastEvent'.message \in UnknownTags
          => /\ UNCHANGED <<mgrVars, objVars, widgetVars, timers>>
             /\ sent' = <<>>]_vars

C14_Witness ==
    /\ lastEvent.message \in UnknownTags
    /\ \E i \in 1..Len(_maps) :
          /\ _id[_maps[i]] = lastEvent.mapId
          /\ _queueGeoJSON[_maps[i]] # <<>>
          /\ _legendDiv[_maps[i]] = "<b>x</b>"

C16_FlushMessageDraws ==
    [][(lastEvent'.message = "leaflet/geojson/flush"
           /\ Registered(lastEvent'.mapId))
          => LET o == getMap(lastEvent'.mapId)
             IN /\ _queueGeoJSON'[o] = <<>>
                /\ _lastGeoJSON'[o].features = finalGeo(o).features
                /\ geoLayers'[o] = {_lastGeoJSON'[o].h}]_vars

(***************************************************************************)
(* C17: a click on a feature of the attached layer sends exactly one       *)
(* onDidClickZone, carrying the id of the map and, as text, the zone id of *)
(* the addGeoJSON call that queued the feature; the click changes nothing  *)
(* of the manager, of any LeafletMap object, of any widget and of the      *)
(* timers.                                                                 *)
(***************************************************************************)
ZoneClicks(box) == { k \in 1..Len(box) : box[k].message = "onDidClickZone" }

C17_ClickSendsZone ==
    [][\A o \in Objects, i \in 1..MaxQueue, p \in ClickPoints :
          ClickFeature(o, i, p) =>
              /\ Cardinality(ZoneClicks(sent')) = 1
              /\ \A k \in ZoneClicks(sent') :
                    sent'[k].data = [id |-> _id[o],
                                     zoneId |-> TemplateString(drawn[o][i].id)]
              /\ UNCHANGED <<mgrVars, objVars, widgetVars, timers>>]_vars

C17_Witness ==
    \E o \in Objects :
        /\ Len(drawn[o]) = 2
        /\ drawn[o][1].id # drawn[o][2].id
        /\ \E k \in ZoneClicks(sent) :
              sent[k].data = [id |-> _id[o],
                              zoneId |-> TemplateString(drawn[o][2].id)]

(***************************************************************************)
(* C18: a mouseover on a feature of the attached layer leaves the info     *)
(* control displayed with that feature's tooltip and the feature           *)
(* highlighted; the mouseout that follows leaves the info control hidden   *)
(* and empty and the feature in its default style.                         *)
(***************************************************************************)
InfoOf(o, i) ==
    [display |-> "block",
     innerHTML |-> _lastGeoJSON[o].features[i].properties.tooltip]

C18_HoverUpdatesInfo ==
    [][\A o \in Objects, i \in 1..MaxQueue :
          /\ MouseOver(o, i) =>
                /\ _tooltipDiv'[o] = InfoOf(o, i)
                /\ i \in highlighted'[o]
          /\ MouseOut(o, i) =>
                /\ _tooltipDiv'[o] = NoInfo
                /\ i \notin highlighted'[o]]_vars

(***************************************************************************)
(* C19: an addGeoJSON call appends one entry, holding its four arguments,  *)
(* at the end of the object's queue; it leaves the object's layer, its     *)
(* markers, its legend, its debounce timer and every pending timer as they *)
(* were, and sends no message.                                             *)
(***************************************************************************)
C19_AddOnlyAppends ==
    [][\A o \in Objects, c \in AddCalls :
          AddGeoJSON(o, c) =>
              /\ _queueGeoJSON'[o] =
                    Append(_queueGeoJSON[o],
                           [points |-> c.points, id |-> c.id,
                            tooltip |-> c.tooltip, color |-> c.color])
              /\ UNCHANGED <<_lastGeoJSON, geoLayers, _markers, markerLayers,
                             _legendDiv, _debouncer, timers>>
              /\ sent' = <<>>]_vars

C19_Witness ==
    \E o \in Objects :
        /\ Len(_queueGeoJSON[o]) = 2
        /\ _queueGeoJSON[o] = [i \in 1..2 |->
              [points |-> added[o][i].points, id |-> added[o][i].id,
               tooltip |-> added[o][i].tooltip, color |-> added[o][i].color]]
        /\ _queueGeoJSON[o][1] # _queueGeoJSON[o][2]
        /\ _lastGeoJSON[o] # NoLayer /\ _lastGeoJSON[o].h \in geoLayers[o]
        /\ markerLayers[o] # {}
        /\ _legendDiv[o] = "<b>1</b>"
        /\ \E t \in timers : t.obj = o /\ t.h = _debouncer[o]
        /\ sent = <<>>

(***************************************************************************)
(* C20: with two maps and their events interleaved in any order, a view    *)
(* signal, an addGeoJSON, a drawGeoJSON, an updateMarkers call or a timer  *)
(* expiry of one object leaves every other object's queue, layer, markers, *)
(* debounce handle and pending timer (with the time it has left) as they   *)
(* were; a timer expiry sends one onDidChangeView carrying the id and the  *)
(* last signalled viewport of the timer's own object; and every object     *)
(* whose burst has been quiet for more than DebounceDelay has sent exactly *)
(* one onDidChangeView for it.                                             *)
(***************************************************************************)
OthersUntouched(o) ==
    \A x \in Objects \ {o} :
        /\ _queueGeoJSON'[x] = _queueGeoJSON[x]
        /\ _lastGeoJSON'[x] = _lastGeoJSON[x]
        /\ geoLayers'[x] = geoLayers[x]
        /\ _markers'[x] = _markers[x]
        /\ markerLayers'[x] = markerLayers[x]
        /\ _debouncer'[x] = _debouncer[x]
        /\ { t \in timers' : t.obj = x } = { t \in timers : t.obj = x }

C20_SessionsIndependent ==
    /\ [](\A o \in Objects :
            burstLen[o] >= 1 /\ quiet[o] > DebounceDelay => burstSent[o] = 1)
    /\ [][/\ \A o \in Objects, v \in Viewports :
               ViewSignal(o, v) => OthersUntouched(o)
          /\ \A o \in Objects :
               AddGeoJSON(o, SessionAdd) => OthersUntouched(o)
          /\ \A o \in Objects : DrawGeoJSON(o) => OthersUntouched(o)
          /\ \A o \in Objects, ms \in SessionMarkers :
               UpdateMarkers(o, ms) => OthersUntouched(o)
          /\ \A t \in timers :
               TimerFire(t) =>
                   /\ OthersUntouched(t.obj)
                   /\ sent' = <<ChangeViewOf(t.obj, sigView[t.obj])>>]_vars

C20_Witness ==
    /\ Len(_id) = 2
    /\ burstLen[2] >= 2
    /\ burstSent[2] = 1
    /\ sent = <<ChangeViewOf(2, sigView[2])>>
    /\ sigView[1] # sigView[2]
    /\ burstLen[1] >= 1
    /\ \E t \in timers : t.obj = 1 /\ t.h = _debouncer[1] /\ t.left < DebounceDelay
    /\ _queueGeoJSON[1] # <<>>
    /\ _lastGeoJSON[1] # NoLayer
    /\ markerLayers[2] # {}

=============================================================================
